---- MODULE Spec2Model ----
(***************************************************************************)
(* Model of the dataflow framework (lesson4/dataflow_framework.py) and of  *)
(* the dominator module (lesson5/dominators.py, lesson5/run_on_bril.py).   *)
(*                                                                         *)
(* Spec     : worklist_solve run on a CFG built by make_cfg, for the       *)
(*            reaching-definitions and live-variables problems and for a   *)
(*            problem whose direction is not recognised.                   *)
(* FairSpec : Spec with weak fairness of the solver (the loop keeps        *)
(*            running while it can).                                       *)
(* DomSpec  : compute_dominators, immediate_dominators and                 *)
(*            dominance_frontier applied in sequence to a CFG built by     *)
(*            cfg_from_blocks, as main() of run_on_bril.py does.           *)
(* IterSpec : compute_dominators step by step: the while loop, the passes  *)
(*            over the reverse post-order and the return.                  *)
(* BrilSpec : the block builders applied to a function's instruction list: *)
(*            split_into_blocks (lesson5/run_on_bril.py and its copy in    *)
(*            lesson4/reaching_def.py), make_blocks (lesson2/cfg/          *)
(*            draw_cfg.py) and function_to_blocks (lesson4/                *)
(*            run_bril_dataflow.py).                                       *)
(* CopySpec : the copy-aware reaching definitions of                       *)
(*            lesson4/reaching_def.py: assign_def_ids, split_into_blocks   *)
(*            and the worklist of run_copy_aware_rd.                       *)
(* AnalyzeSpec : analyze_file of lesson4/run_bril_dataflow.py for one      *)
(*            function: function_to_blocks, make_cfg, then worklist_solve  *)
(*            for reaching definitions and for live variables.             *)
(***************************************************************************)
EXTENDS Integers, Sequences, FiniteSets, TLC

VARIABLES cfg, prob, in_map, out_map, wl, pc,
          dcfg, dom, idom, DF, dpc,
          rporder, vi, dchanged,
          instrs, res, bpc,
          rIN, rOUT, work, rpc

vars == <<cfg, prob, in_map, out_map, wl, pc, dcfg, dom, idom, DF, dpc,
          rporder, vi, dchanged, instrs, res, bpc, rIN, rOUT, work, rpc>>

dfvars == <<cfg, prob, in_map, out_map, wl, pc>>

domvars == <<dcfg, dom, idom, DF, dpc>>

\* The locals of compute_dominators: rpo, the position in rpo and changed.
itervars == <<rporder, vi, dchanged>>

\* A function's instruction list, the result of building its blocks, and the
\* position of the builder.
brilvars == <<instrs, res, bpc>>

\* IN, OUT and work of run_copy_aware_rd, and its position.
copyvars == <<rIN, rOUT, work, rpc>>

(***************************************************************************)
(* Bounds of the model.                                                    *)
(***************************************************************************)
\* Largest number of blocks of a CFG handed to worklist_solve.
MaxBlocks == 2

\* Largest number of edges of a CFG handed to worklist_solve.
MaxEdges == 3

\* Largest number of blocks of a CFG handed to the dominator module.
MaxNodes == 4

\* Largest number of edges of a CFG handed to the dominator module.
MaxDomEdges == 4

\* Largest number of blocks and of edges of a CFG whose dominators are
\* computed step by step.
MaxIterNodes == 4

MaxIterEdges == 4

(***************************************************************************)
(* Generic helpers.                                                        *)
(***************************************************************************)
\* All orders in which a for-loop may iterate over the Python set S.
Orders(S) ==
  {s \in [1..Cardinality(S) -> S] : \A i, j \in 1..Cardinality(S) : i # j => s[i] # s[j]}

\* A worklist seeded with the first block only.
Keys_first(n) == IF n > 0 THEN <<1>> ELSE <<>>

\* The sequence 1, 2, ..., n: deque(blocks.keys()), a dict's keys in insertion order.
Keys(n) == [i \in 1..n |-> i]

(***************************************************************************)
(* Statement: the text of a statement is the sequence of its tokens.       *)
(***************************************************************************)
\* Tokens the regular expression [A-Za-z_]\w* of _vars_in does not match.
NotAName == {"=", "*", "[", "]", "1", "2"}

\* "=" in t
HasEq(t) == \E i \in 1..Len(t) : t[i] = "="

\* Position of the first "=": t.split("=", 1) splits there.
EqPos(t) == CHOOSE i \in 1..Len(t) : t[i] = "=" /\ \A j \in 1..(i-1) : t[j] # "="

Lhs(t) == SubSeq(t, 1, EqPos(t) - 1)

Rhs(t) == SubSeq(t, EqPos(t) + 1, Len(t))

\* lhs.startswith("*") or lhs.startswith("[")
IsDerefOrIndex(lhs) == lhs # <<>> /\ lhs[1] \in {"*", "["}

\* The stripped text left of "=", as one string.
RECURSIVE Text(_)
Text(toks) == IF toks = <<>> THEN "" ELSE Head(toks) \o Text(Tail(toks))

\* Statement._vars_in
vars_in(expr) == {expr[i] : i \in {j \in 1..Len(expr) : expr[j] \notin NotAName}}

\* Statement.defs
defs(t) ==
  IF HasEq(t)
  THEN IF IsDerefOrIndex(Lhs(t)) THEN {} ELSE {Text(Lhs(t))}
  ELSE {}

\* Statement.uses
uses(t) ==
  IF ~HasEq(t) THEN {}
  ELSE IF IsDerefOrIndex(Lhs(t)) THEN vars_in(Lhs(t)) \cup vars_in(Rhs(t))
  ELSE vars_in(Rhs(t))

(***************************************************************************)
(* BasicBlock.block_uses_defs                                              *)
(***************************************************************************)
RECURSIVE UseFold(_, _)
UseFold(stmts, seen_defs) ==
  IF stmts = <<>> THEN {}
  ELSE {v \in uses(Head(stmts)) : v \notin seen_defs}
         \cup UseFold(Tail(stmts), seen_defs \cup defs(Head(stmts)))

block_uses_defs(blk) ==
  [use  |-> UseFold(blk.stmts, {}),
   defs |-> UNION {defs(blk.stmts[i]) : i \in 1..Len(blk.stmts)}]

(***************************************************************************)
(* make_cfg: blocks is the dict bid -> statements, with the block ids      *)
(* 1..Len(blocks) in insertion order; edges is a set of pairs <<u, v>>.    *)
(***************************************************************************)
make_cfg(blocks, edges, entry, exit) ==
  [blocks |-> [bid \in DOMAIN blocks |->
                 [bid   |-> bid,
                  stmts |-> blocks[bid],
                  preds |-> {u \in DOMAIN blocks : <<u, bid>> \in edges},
                  succs |-> {v \in DOMAIN blocks : <<bid, v>> \in edges}]],
   entry  |-> entry,
   exit   |-> exit]

(***************************************************************************)
(* Reaching definitions.  A definition site is <<bid, i, v>>, i counted    *)
(* from 0 as enumerate does.                                               *)
(***************************************************************************)
compute_def_sites(c, v) ==
  UNION {{<<bid, i - 1, v>> : i \in {j \in 1..Len(c.blocks[bid].stmts) :
                                       v \in defs(c.blocks[bid].stmts[j])}}
         : bid \in DOMAIN c.blocks}

\* The loop of lines 110-113 from statement i on, gen_b held as a set.
RECURSIVE GenFold(_, _, _, _, _)
GenFold(bid, stmts, i, gen_b, seen) ==
  IF i > Len(stmts) THEN gen_b
  ELSE LET d == defs(stmts[i])
           kept == {site \in gen_b : site[3] \notin (d \cap seen)}
       IN GenFold(bid, stmts, i + 1,
                  kept \cup {<<bid, i - 1, v>> : v \in d}, seen \cup d)

\* gen without the rule that a later definition supersedes an earlier one.
gen_every_site(c, bid) ==
  UNION {{<<bid, i - 1, v>> : v \in defs(c.blocks[bid].stmts[i])}
         : i \in 1..Len(c.blocks[bid].stmts)}

gen(c, bid) == GenFold(bid, c.blocks[bid].stmts, 1, {}, {})

kill(c, bid) ==
  LET kill_vars == {site[3] : site \in gen(c, bid)}
  IN UNION {compute_def_sites(c, v) : v \in kill_vars} \ gen(c, bid)

rd_transfer(c, blk, in_val) == gen(c, blk.bid) \cup (in_val \ kill(c, blk.bid))

\* top taken to be the set of all definition sites instead of the empty set.
rd_problem_top_all(c) ==
  [direction |-> "forward", top |-> UNION {gen(c, b) \cup kill(c, b) : b \in DOMAIN c.blocks},
   analysis |-> "rd", init_map |-> [k \in {c.entry} |-> {}]]

reaching_definitions_problem(c) ==
  [direction |-> "forward", top |-> {}, analysis |-> "rd",
   init_map |-> [k \in {c.entry} |-> {}]]

(***************************************************************************)
(* Live variables.                                                         *)
(***************************************************************************)
\* The definitions subtracted after the uses are added.
lv_transfer_defs_last(c, blk, out_val) ==
  (block_uses_defs(blk).use \cup out_val) \ block_uses_defs(blk).defs

lv_transfer(c, blk, out_val) ==
  block_uses_defs(blk).use \cup (out_val \ block_uses_defs(blk).defs)

live_variables_problem(c) ==
  [direction |-> "backward", top |-> {}, analysis |-> "lv",
   init_map |-> [k \in {c.exit} |-> {}]]

(***************************************************************************)
(* DataflowProblem: the closures meet and transfer of a problem p.         *)
(***************************************************************************)
\* meet of both problems: the union of the listed values.
meet(sets) == UNION sets

transfer(c, p, blk, val) ==
  IF p.analysis = "rd" THEN rd_transfer(c, blk, val) ELSE lv_transfer(c, blk, val)

(***************************************************************************)
(* worklist_solve                                                          *)
(***************************************************************************)
\* Lines 67-72: every block at top, then the seeds of init_map.
Seeded(c, p) ==
  [bid \in DOMAIN c.blocks |->
     IF p.init_map # <<>> /\ bid \in DOMAIN p.init_map
     THEN p.init_map[bid] ELSE p.top]

\* The comparison of line 80 inverted: successors enqueued only when nothing changed.
Changed_inverted(new, old) == new = old

\* No value-equality check: the successors are enqueued on every visit.
Changed_always(new, old) == TRUE

\* changed = out_val != out_map[b]
Changed(new, old) == new # old

\* Lines 66-74.
SolveInit ==
  /\ pc = "start"
  /\ in_map' = Seeded(cfg, prob)
  /\ out_map' = Seeded(cfg, prob)
  /\ wl' = Keys(Len(cfg.blocks))
  /\ pc' = "loop"
  /\ UNCHANGED <<cfg, prob>>

\* One iteration of the loop, lines 76-83.
SolveForward ==
  /\ pc = "loop" /\ wl # <<>>
  /\ prob.direction = "forward"
  /\ LET b == Head(wl)
         blk == cfg.blocks[b]
         in_val == IF blk.preds # {}
                   THEN meet({out_map[p] : p \in blk.preds})
                   ELSE in_map[b]
         out_val == transfer(cfg, prob, blk, in_val)
         changed == Changed(out_val, out_map[b])
     IN /\ in_map' = [in_map EXCEPT ![b] = in_val]
        /\ out_map' = [out_map EXCEPT ![b] = out_val]
        /\ IF changed
           THEN \E order \in Orders(blk.succs) : wl' = Tail(wl) \o order
           ELSE wl' = Tail(wl)
  /\ UNCHANGED <<cfg, prob, pc>>

\* One iteration of the loop, lines 76 and 84-90.
SolveBackward ==
  /\ pc = "loop" /\ wl # <<>>
  /\ prob.direction = "backward"
  /\ LET b == Head(wl)
         blk == cfg.blocks[b]
         out_val == IF blk.succs # {}
                    THEN meet({in_map[s] : s \in blk.succs})
                    ELSE out_map[b]
         in_val == transfer(cfg, prob, blk, out_val)
         changed == Changed(in_val, in_map[b])
     IN /\ out_map' = [out_map EXCEPT ![b] = out_val]
        /\ in_map' = [in_map EXCEPT ![b] = in_val]
        /\ IF changed
           THEN \E order \in Orders(blk.preds) : wl' = Tail(wl) \o order
           ELSE wl' = Tail(wl)
  /\ UNCHANGED <<cfg, prob, pc>>

\* Lines 76 and 91-92: the node is dequeued, then ValueError is raised.
SolveBadDirection ==
  /\ pc = "loop" /\ wl # <<>>
  /\ prob.direction \notin {"forward", "backward"}
  /\ wl' = Tail(wl)
  /\ pc' = "error"
  /\ UNCHANGED <<cfg, prob, in_map, out_map>>

\* Line 93: the worklist is empty.
SolveReturn ==
  /\ pc = "loop" /\ wl = <<>>
  /\ pc' = "done"
  /\ UNCHANGED <<cfg, prob, in_map, out_map, wl>>

(***************************************************************************)
(* Inputs of worklist_solve.                                               *)
(***************************************************************************)
\* The statement lists a block is given.
Bodies ==
  { <<>>,
    << <<"x", "=", "1">> >>,
    << <<"y", "=", "x">>, <<"x", "=", "y">> >> }

BlockLists == UNION {[1..n -> Bodies] : n \in 0..MaxBlocks}

\* The edge lists make_cfg accepts for these blocks (both ends are blocks).
EdgeSets(blocks) ==
  {edges \in SUBSET ((DOMAIN blocks) \X (DOMAIN blocks)) : Cardinality(edges) <= MaxEdges}

\* A block that defines x twice, alone or after a block that defines x.
Redefining == << <<"x", "=", "1">>, <<"y", "=", "x">>, <<"x", "=", "2">> >>

RedefiningLists == { <<Redefining>>, << << <<"x", "=", "1">> >>, Redefining >> }

\* A block that writes through a pointer (*x = y) or to an element
\* (x[y] = y), after a block that defines x.
MemoryWriteLists ==
  { << << <<"x", "=", "1">> >>, << <<"*", "x", "=", "y">> >> >>,
    << << <<"x", "=", "1">> >>, << <<"x", "[", "y", "]", "=", "y">> >> >> }

\* Entry is the first block and exit the last, as function_to_blocks has them.
CFGs ==
  UNION {{make_cfg(blocks, edges, 1, Len(blocks)) : edges \in EdgeSets(blocks)}
         : blocks \in BlockLists \cup RedefiningLists \cup MemoryWriteLists}

\* A direction worklist_solve does not recognise.
BadProblem(c) == [reaching_definitions_problem(c) EXCEPT !.direction = "sideways"]

Problems(c) ==
  {reaching_definitions_problem(c), live_variables_problem(c), BadProblem(c)}

DFIdle ==
  /\ cfg = make_cfg(<<>>, {}, 1, 0)
  /\ prob = reaching_definitions_problem(cfg)
  /\ in_map = <<>> /\ out_map = <<>> /\ wl = <<>> /\ pc = "idle"

DomIdle ==
  /\ dcfg = [entry |-> 0, blocks |-> <<>>] /\ dom = <<>> /\ idom = <<>> /\ DF = <<>> /\ dpc = "idle"

IterIdle == rporder = <<>> /\ vi = 0 /\ dchanged = FALSE

BrilIdle == instrs = <<>> /\ res = <<>> /\ bpc = "idle"

CopyIdle == rIN = <<>> /\ rOUT = <<>> /\ work = <<>> /\ rpc = "idle"

Init ==
  /\ cfg \in CFGs
  /\ prob \in Problems(cfg)
  /\ in_map = <<>> /\ out_map = <<>> /\ wl = <<>>
  /\ pc = "start"
  /\ DomIdle /\ IterIdle /\ BrilIdle /\ CopyIdle

Next ==
  \/ SolveInit /\ UNCHANGED <<domvars, itervars, brilvars, copyvars>>
  \/ SolveForward /\ UNCHANGED <<domvars, itervars, brilvars, copyvars>>
  \/ SolveBackward /\ UNCHANGED <<domvars, itervars, brilvars, copyvars>>
  \/ SolveBadDirection /\ UNCHANGED <<domvars, itervars, brilvars, copyvars>>
  \/ SolveReturn /\ UNCHANGED <<domvars, itervars, brilvars, copyvars>>

Spec == Init /\ [][Next]_vars

FairSpec == Spec /\ WF_vars(Next)

(***************************************************************************)
(* Dominator module (lesson5/dominators.py).  A node "B<i>" is the number  *)
(* i; sorting node names is sorting the numbers.                           *)
(***************************************************************************)
\* Python's None as the immediate dominator of a node that has none.
None == -1

\* S in ascending order: sorted(S).
RECURSIVE Sorted(_)
Sorted(S) ==
  IF S = {} THEN <<>>
  ELSE LET m == CHOOSE x \in S : \A y \in S : x <= y
       IN <<m>> \o Sorted(S \ {m})

Reverse(s) == [i \in 1..Len(s) |-> s[Len(s) + 1 - i]]

\* CFG(entry) with add_block for each of nb names and add_edge for each
\* edge, as cfg_from_blocks does: blocks maps a node to its predecessors.
cfg_from_blocks(edges, nb) ==
  [entry  |-> 0,
   blocks |-> [n \in 0..(nb - 1) |-> {u \in 0..(nb - 1) : <<u, n>> \in edges}]]

\* CFG.succs, read as succs.get(n, ()).
succs(c, n) == {v \in DOMAIN c.blocks : n \in c.blocks[v]}

\* _reachable_from_entry
RECURSIVE ReachableFrom(_, _)
ReachableFrom(c, seen) ==
  LET more == seen \cup UNION {succs(c, n) : n \in seen}
  IN IF more = seen THEN seen ELSE ReachableFrom(c, more)

reachable_from_entry(c) == ReachableFrom(c, {c.entry})

\* dfs of _reverse_post_order; st is [seen, post].
RECURSIVE dfs(_, _, _), dfs_each(_, _, _)
dfs(c, u, st) ==
  IF u \in st.seen THEN st
  ELSE LET below == dfs_each(c, Sorted(succs(c, u)),
                             [seen |-> st.seen \cup {u}, post |-> st.post])
       IN [seen |-> below.seen, post |-> Append(below.post, u)]

\* for v in vs: dfs(v)
dfs_each(c, vs, st) ==
  IF vs = <<>> THEN st ELSE dfs_each(c, Tail(vs), dfs(c, Head(vs), st))

\* _reverse_post_order: entry first, then every node not yet seen, sorted.
reverse_post_order(c) ==
  LET first == dfs(c, c.entry, [seen |-> {}, post |-> <<>>])
      all == dfs_each(c, Sorted(DOMAIN c.blocks), first)
  IN Reverse(all.post)

\* new_set without the node itself.
new_set_meet_only(c, d, v) ==
  IF c.blocks[v] # {}
  THEN {x \in DOMAIN d : \A p \in c.blocks[v] : x \in d[p]}
  ELSE {v}

\* Lines 97-103: new_set for node v.
new_set(c, d, v) ==
  IF c.blocks[v] # {}
  THEN {v} \cup {x \in DOMAIN d : \A p \in c.blocks[v] : x \in d[p]}
  ELSE {v}

\* One pass of the for loop of lines 94-106 over rpo, from position i on.
RECURSIVE DomPass(_, _, _, _)
DomPass(c, rpo, i, d) ==
  IF i > Len(rpo) THEN d
  ELSE IF rpo[i] = c.entry THEN DomPass(c, rpo, i + 1, d)
  ELSE DomPass(c, rpo, i + 1, [d EXCEPT ![rpo[i]] = new_set(c, d, rpo[i])])

\* while changed: passes until a pass changes no dom[v].
RECURSIVE DomLoop(_, _, _)
DomLoop(c, rpo, d) ==
  LET after == DomPass(c, rpo, 1, d)
  IN IF after = d THEN d ELSE DomLoop(c, rpo, after)

\* Every block dominated by itself alone.
dom_init_self(c) == [b \in DOMAIN c.blocks \cup {c.entry} |-> {b}]

\* Lines 85-87: every block dominated by all blocks, entry by itself.
dom_init(c) ==
  [b \in DOMAIN c.blocks \cup {c.entry} |->
     IF b = c.entry THEN {c.entry} ELSE DOMAIN c.blocks]

compute_dominators(c) == DomLoop(c, reverse_post_order(c), dom_init(c))

\* The test of line 119 turned round: d is in the dominator set of every other.
Candidates_dominating(d, v) ==
  {x \in d[v] \ {v} : \A o \in (d[v] \ {v}) \ {x} : x \in d[o]}

\* The test of line 119 passed by every member of strict.
Candidates_any(d, v) == d[v] \ {v}

\* The members of strict that pass the test of line 119.
Candidates(d, v) ==
  {x \in d[v] \ {v} : \A o \in (d[v] \ {v}) \ {x} : o \in d[x]}

\* The values lines 115-124 can give idom[v]: the loop over the set strict
\* takes the first candidate it meets, max the first largest it meets.
ImmChoices(d, v) ==
  LET strict == d[v] \ {v}
  IN IF Candidates(d, v) # {} THEN Candidates(d, v)
     ELSE IF strict # {}
          THEN {x \in strict : \A y \in strict : Cardinality(d[x]) >= Cardinality(d[y])}
          ELSE {None}

\* The mappings immediate_dominators can return over the nodes of D.
RECURSIVE immediate_dominators(_, _, _)
immediate_dominators(d, entry, D) ==
  IF D = {} THEN {<<>>}
  ELSE LET v == CHOOSE x \in D : TRUE
       IN {f @@ (v :> i) : f \in immediate_dominators(d, entry, D \ {v}),
                           i \in IF v = entry THEN {None} ELSE ImmChoices(d, v)}

\* The walk adding y to the first node only.
RunnerWalk_first_only(im, runner, stop, visited) ==
  [nodes |-> IF runner = None \/ runner = stop THEN {} ELSE {runner},
   hangs |-> FALSE]

\* The while loop of lines 144-146 from runner on: the nodes it adds y to,
\* and whether it comes back to a node it left, and so never ends.
RECURSIVE RunnerWalk(_, _, _, _)
RunnerWalk(im, runner, stop, visited) ==
  IF runner = None \/ runner = stop THEN [nodes |-> visited, hangs |-> FALSE]
  ELSE IF runner \in visited THEN [nodes |-> visited, hangs |-> TRUE]
  ELSE RunnerWalk(im, im[runner], stop, visited \cup {runner})

\* The join nodes and their predecessors: the pairs lines 138-141 visit.
JoinPairs(c) ==
  {<<y, p>> \in (DOMAIN c.blocks) \X (DOMAIN c.blocks) :
     Cardinality(c.blocks[y]) >= 2 /\ p \in c.blocks[y]}

DFHangs(c, im) ==
  \E yp \in JoinPairs(c) : RunnerWalk(im, yp[2], im[yp[1]], {}).hangs

dominance_frontier(c, im) ==
  [n \in DOMAIN im |->
     {y \in DOMAIN c.blocks :
        \E p \in c.blocks[y] :
           /\ <<y, p>> \in JoinPairs(c)
           /\ n \in RunnerWalk(im, p, im[y], {}).nodes}]

(***************************************************************************)
(* main() of run_on_bril.py, lines 153-156.                                *)
(***************************************************************************)
ComputeDominators ==
  /\ dpc = "start"
  /\ dom' = compute_dominators(dcfg)
  /\ dpc' = "dom"
  /\ UNCHANGED <<dcfg, idom, DF>>

ImmediateDominators ==
  /\ dpc = "dom"
  /\ idom' \in immediate_dominators(dom, dcfg.entry, DOMAIN dom)
  /\ dpc' = "idom"
  /\ UNCHANGED <<dcfg, dom, DF>>

DominanceFrontier ==
  /\ dpc = "idom"
  /\ ~DFHangs(dcfg, idom)
  /\ DF' = dominance_frontier(dcfg, idom)
  /\ dpc' = "df"
  /\ UNCHANGED <<dcfg, dom, idom>>

\* dominance_frontier never returns: a runner walk goes round a cycle of idom.
DominanceFrontierHangs ==
  /\ dpc = "idom"
  /\ DFHangs(dcfg, idom)
  /\ dpc' = "df_hang"
  /\ UNCHANGED <<dcfg, dom, idom, DF>>

\* The pairs <<u, v>> of nodes below nb, in a sequence.
PairSeq(nb) == [i \in 1..(nb * nb) |-> <<(i - 1) \div nb, (i - 1) % nb>>]

\* The edges at the positions s of PairSeq(nb).
EdgesAt(nb, s) == {PairSeq(nb)[s[i]] : i \in 1..Len(s)}

\* dcfg is a CFG of nb blocks whose edges are those at the increasing
\* positions s and at most k more, at positions after the last of s.
RECURSIVE PickCFG(_, _, _)
PickCFG(nb, s, k) ==
  \/ dcfg = cfg_from_blocks(EdgesAt(nb, s), nb)
  \/ /\ k > 0
     /\ \E j \in ((IF s = <<>> THEN 0 ELSE s[Len(s)]) + 1)..(nb * nb) :
          PickCFG(nb, Append(s, j), k - 1)

\* Every CFG of at most MaxNodes blocks and at most MaxDomEdges edges, as
\* cfg_from_blocks builds it from the blocks and edges of split_into_blocks.
DomInit ==
  /\ \E nb \in 0..MaxNodes : PickCFG(nb, <<>>, MaxDomEdges)
  /\ dom = <<>> /\ idom = <<>> /\ DF = <<>>
  /\ dpc = "start"
  /\ DFIdle /\ IterIdle /\ BrilIdle /\ CopyIdle

DomNext ==
  \/ ComputeDominators /\ UNCHANGED <<dfvars, itervars, brilvars, copyvars>>
  \/ ImmediateDominators /\ UNCHANGED <<dfvars, itervars, brilvars, copyvars>>
  \/ DominanceFrontier /\ UNCHANGED <<dfvars, itervars, brilvars, copyvars>>
  \/ DominanceFrontierHangs /\ UNCHANGED <<dfvars, itervars, brilvars, copyvars>>

DomSpec == DomInit /\ [][DomNext]_vars

(***************************************************************************)
(* compute_dominators step by step (dominators.py lines 85-107): dom is    *)
(* the map being refined, rporder the list rpo, vi the position of the for  *)
(* loop in it.        The steps start where lines 85-91 have run: dom is    *)
(* initialised, rpo computed and changed is True.                          *)
(***************************************************************************)
\* Lines 92-94: the while test succeeds, changed = False, the for loop starts.
IterPassBegin ==
  /\ dpc = "while" /\ dchanged
  /\ dchanged' = FALSE
  /\ vi' = 1
  /\ dpc' = "for"
  /\ UNCHANGED <<dcfg, dom, idom, DF, rporder>>

\* Lines 94-106: one iteration of the for loop, for v = rpo[vi].
IterVisit ==
  /\ dpc = "for" /\ vi <= Len(rporder)
  /\ LET v == rporder[vi]
     IN IF v # dcfg.entry /\ new_set(dcfg, dom, v) # dom[v]
        THEN /\ dom' = [dom EXCEPT ![v] = new_set(dcfg, dom, v)]
             /\ dchanged' = TRUE
        ELSE UNCHANGED <<dom, dchanged>>
  /\ vi' = vi + 1
  /\ UNCHANGED <<dcfg, idom, DF, dpc, rporder>>

\* Line 94: rpo is exhausted, back to the while test.
IterPassEnd ==
  /\ dpc = "for" /\ vi > Len(rporder)
  /\ dpc' = "while"
  /\ UNCHANGED <<dcfg, dom, idom, DF, rporder, vi, dchanged>>

\* Lines 92, 107: the while test fails, dom is returned.
IterReturn ==
  /\ dpc = "while" /\ ~dchanged
  /\ dpc' = "dom"
  /\ UNCHANGED <<dcfg, dom, idom, DF, rporder, vi, dchanged>>

IterInit ==
  /\ \E nb \in 0..MaxIterNodes : PickCFG(nb, <<>>, MaxIterEdges)
  /\ dom = dom_init(dcfg)
  /\ rporder = reverse_post_order(dcfg)
  /\ dchanged = TRUE
  /\ vi = 0
  /\ dpc = "while"
  /\ idom = <<>> /\ DF = <<>>
  /\ DFIdle /\ BrilIdle /\ CopyIdle

IterNext ==
  \/ IterPassBegin /\ UNCHANGED <<dfvars, brilvars, copyvars>>
  \/ IterVisit /\ UNCHANGED <<dfvars, brilvars, copyvars>>
  \/ IterPassEnd /\ UNCHANGED <<dfvars, brilvars, copyvars>>
  \/ IterReturn /\ UNCHANGED <<dfvars, brilvars, copyvars>>

\* The loop keeps running while it can.
IterSpec == IterInit /\ [][IterNext]_vars /\ WF_vars(IterNext)

(***************************************************************************)
(* Bril instructions and the block builders: split_into_blocks of          *)
(* lesson5/run_on_bril.py (lesson4/reaching_def.py holds a copy),          *)
(* function_to_blocks of lesson4/run_bril_dataflow.py and make_blocks of   *)
(* lesson2/cfg/draw_cfg.py.  An instruction is a record; a key the JSON    *)
(* object lacks is "" (label, op, dest) or <<>> (args, labels).  List      *)
(* positions and block indices count from 0 as in the code.                *)
(***************************************************************************)
\* Largest number of instructions of a function handed to the block builders.
MaxInstrs == 4

Lbl(l) == [label |-> l, op |-> "", dest |-> "", args |-> <<>>, labels |-> <<>>]

Ins(op, dest, args, labels) ==
  [label |-> "", op |-> op, dest |-> dest, args |-> args, labels |-> labels]

TERMINATORS == {"br", "jmp", "ret"}

\* is_label of run_on_bril.py; "label" in ins of reaching_def.py and
\* draw_cfg.py is the same on these records.
is_label(ins) == ins.label # "" /\ ins.op = ""

\* The element at position i, counted from 0.
At(seq, i) == seq[i + 1]

Range(seq) == {seq[i] : i \in 1..Len(seq)}

\* label_positions: the position of each label, the last one if repeated.
label_positions(is) ==
  [l \in {is[i].label : i \in {j \in 1..Len(is) : is_label(is[j])}} |->
     (CHOOSE i \in 1..Len(is) :
        /\ is_label(is[i]) /\ is[i].label = l
        /\ \A j \in (i + 1)..Len(is) : ~(is_label(is[j]) /\ is[j].label = l)) - 1]

\* leaders without the rule that position 0 starts a block.
leaders_without_first(is, lblpos) ==
  LET n == Len(is)
      after(i) == IF i + 1 < n THEN {i + 1} ELSE {}
      of(i) ==
        LET ins == At(is, i)
        IN IF ins.op = "br"
           THEN {lblpos[t] : t \in Range(ins.labels) \cap DOMAIN lblpos} \cup after(i)
           ELSE IF ins.op = "jmp"
           THEN {lblpos[t] : t \in {ins.labels[1]} \cap DOMAIN lblpos} \cup after(i)
           ELSE IF is_label(ins) THEN {i}
           ELSE {}
  IN Sorted(UNION {of(i) : i \in 0..(n - 1)})

\* leaders: the sorted list of the positions that start a block.
leaders(is, lblpos) ==
  LET n == Len(is)
      after(i) == IF i + 1 < n THEN {i + 1} ELSE {}
      of(i) ==
        LET ins == At(is, i)
        IN IF ins.op = "br"
           THEN {lblpos[t] : t \in Range(ins.labels) \cap DOMAIN lblpos} \cup after(i)
           ELSE IF ins.op = "jmp"
           THEN {lblpos[t] : t \in {ins.labels[1]} \cap DOMAIN lblpos} \cup after(i)
           ELSE IF is_label(ins) THEN {i}
           ELSE {}
  IN Sorted((IF n > 0 THEN {0} ELSE {}) \cup UNION {of(i) : i \in 0..(n - 1)})

\* block_index_of_pos: the index of the block whose range holds pos, or None.
block_index_of_pos(L, is, pos) ==
  LET hit == {i \in 0..(Len(L) - 1) :
                /\ At(L, i) <= pos
                /\ pos < (IF i + 1 < Len(L) THEN At(L, i + 1) ELSE Len(is))}
  IN IF hit = {} THEN None ELSE CHOOSE i \in hit : \A j \in hit : i <= j

\* The instructions of a list that are not labels.
StripLabels(is) == SelectSeq(is, LAMBDA ins : ~is_label(ins))

\* Lines 85-90 and 92-97: the blocks of the targets tgts that are in lblpos.
RECURSIVE TargetBlocks(_, _, _, _)
TargetBlocks(tgts, L, is, lblpos) ==
  IF tgts = <<>> THEN <<>>
  ELSE LET tb == IF Head(tgts) \in DOMAIN lblpos
                 THEN block_index_of_pos(L, is, lblpos[Head(tgts)])
                 ELSE None
       IN (IF tb = None THEN <<>> ELSE <<tb>>)
            \o TargetBlocks(Tail(tgts), L, is, lblpos)

\* Lines 76-104: the list edges[bidx].
block_edges(blocks, bidx, L, is, lblpos) ==
  LET block == At(blocks, bidx)
      next == IF bidx + 1 < Len(blocks) THEN <<bidx + 1>> ELSE <<>>
      last == block[Len(block)]
  IN IF block = <<>> THEN next
     ELSE IF last.op = "br" THEN TargetBlocks(last.labels, L, is, lblpos)
     ELSE IF last.op = "jmp" THEN TargetBlocks(<<last.labels[1]>>, L, is, lblpos)
     ELSE IF last.op = "ret" THEN <<>>
     ELSE next

\* split_into_blocks: blocks is the list of blocks, edges[b] the list of
\* successors of block b (the empty list for a key the defaultdict lacks),
\* preds[b] the set of the members of the list preds[b].
split_into_blocks(is) ==
  LET lblpos == label_positions(is)
      L == leaders(is, lblpos)
      boundaries == L \o <<Len(is)>>
      blocks == [i \in 1..Len(L) |->
                   StripLabels(SubSeq(is, boundaries[i] + 1, boundaries[i + 1]))]
      edges == [b \in 0..(Len(L) - 1) |-> block_edges(blocks, b, L, is, lblpos)]
  IN [blocks |-> blocks,
      edges |-> edges,
      preds |-> [v \in 0..(Len(L) - 1) |->
                   {u \in 0..(Len(L) - 1) : v \in Range(edges[u])}]]

\* The edges of split_into_blocks as pairs of block indices.
EdgePairs(edges) ==
  UNION {{<<u, v>> : v \in Range(edges[u])} : u \in DOMAIN edges}

(***************************************************************************)
(* make_blocks of lesson2/cfg/draw_cfg.py.                                 *)
(***************************************************************************)
\* target_labels
target_labels(ins) == IF ins.op \in {"jmp", "br"} THEN ins.labels ELSE <<>>

\* find_leaders: position 0, the labels some jmp or br names, and the
\* positions after a terminator.
find_leaders(is) ==
  LET n == Len(is)
      label_pos == label_positions(is)
      targeted == UNION {Range(target_labels(is[i])) : i \in 1..n}
  IN Sorted((IF n > 0 THEN {0} ELSE {})
            \cup {label_pos[l] : l \in targeted \cap DOMAIN label_pos}
            \cup {i + 1 : i \in {j \in 0..(n - 2) : At(is, j).op \in TERMINATORS}})

BName(i) == "B" \o ToString(i)

\* make_blocks: the list of blocks, labels kept in "instrs", and label2block.
make_blocks(is) ==
  LET L == find_leaders(is)
      end_of(bi) == IF bi + 1 < Len(L) THEN At(L, bi + 1) - 1 ELSE Len(is) - 1
      blocks == [k \in 1..Len(L) |->
                   LET start == L[k]
                   IN [name |-> IF is_label(At(is, start))
                                THEN At(is, start).label ELSE BName(k - 1),
                       start |-> start,
                       end |-> end_of(k - 1),
                       instrs |-> SubSeq(is, start + 1, end_of(k - 1) + 1)]]
      covering(i) == CHOOSE bi \in 0..(Len(L) - 1) :
                       /\ At(blocks, bi).start <= i /\ i <= At(blocks, bi).end
                       /\ \A bj \in 0..(bi - 1) :
                            ~(At(blocks, bj).start <= i /\ i <= At(blocks, bj).end)
  IN [blocks |-> blocks,
      label2block |-> [l \in DOMAIN label_positions(is) |->
                         covering(label_positions(is)[l])]]

(***************************************************************************)
(* function_to_blocks of lesson4/run_bril_dataflow.py.                     *)
(***************************************************************************)
\* The value None of bril_ins_to_line; a line is a list of tokens.
NoLine == <<"None">>

BinaryOps == {"add", "sub", "mul", "div", "eq", "lt", "gt", "le", "ge", "and", "or"}

\* bril_ins_to_line: the statement text of an instruction, as its tokens.
bril_ins_to_line(ins) ==
  LET arg(k) == IF Len(ins.args) >= k THEN <<ins.args[k]>> ELSE <<>>
  IN IF ins.op = "" THEN NoLine
     ELSE IF ins.op = "const"
     THEN IF ins.dest = "" THEN NoLine ELSE <<ins.dest, "=", "const">>
     ELSE IF ins.op = "id"
     THEN IF ins.dest = "" THEN NoLine ELSE <<ins.dest, "=">> \o <<ins.args[1]>>
     ELSE IF ins.op \in BinaryOps
     THEN IF ins.dest = "" THEN NoLine
          ELSE <<ins.dest, "=">> \o arg(1) \o <<ins.op>> \o arg(2)
     ELSE IF ins.op = "not"
     THEN IF ins.dest = "" THEN NoLine ELSE <<ins.dest, "=">> \o arg(1)
     ELSE IF ins.op = "call"
     THEN IF ins.dest # "" THEN <<ins.dest, "=">> \o ins.args
          ELSE IF ins.args # <<>> THEN <<"_", "=", ins.args[1]>> ELSE NoLine
     ELSE IF ins.op \in TERMINATORS
     THEN IF ins.op = "br" /\ ins.args # <<>>
          THEN <<"_brcond", "=", ins.args[1]>> ELSE NoLine
     ELSE IF ins.dest # "" THEN <<ins.dest, "=">> \o ins.args
     ELSE NoLine

\* start_block: a new empty block B<bid_counter> becomes the current block.
start_block(st) ==
  [st EXCEPT !.blocks = Append(@, <<>>), !.cur = Len(st.blocks)]

\* Lines 46-60: the first pass from instruction i on.  st.blocks is the list
\* of the blocks' lines in order of creation (block B<k> at position k),
\* st.labels the label table, st.cur the index of current_block, and
\* st.home the block each instruction so far was put into.
RECURSIVE FirstPass(_, _, _)
FirstPass(is, i, st) ==
  IF i > Len(is) THEN st
  ELSE LET ins == is[i]
           line == bril_ins_to_line(ins)
           opened == IF ins.label # "" /\ At(st.blocks, st.cur) # <<>>
                     THEN start_block(st) ELSE st
           labelled == [opened EXCEPT
                          !.labels = (ins.label :> BName(opened.cur)) @@ @,
                          !.home = Append(@, opened.cur)]
           added == [st EXCEPT
                       !.blocks[st.cur + 1] = IF line = NoLine THEN @ ELSE Append(@, line),
                       !.home = Append(@, st.cur)]
           closed == IF ins.op \in TERMINATORS THEN start_block(added) ELSE added
       IN FirstPass(is, i + 1, IF ins.label # "" THEN labelled ELSE closed)

\* Lines 69-82: the second pass from instruction i on.  st.idx is
\* cur_block_idx, st.cur is cur_block, st.bterms maps a block to its
\* terminator; st.err is set when order[cur_block_idx] is out of range.
RECURSIVE SecondPass(_, _, _, _, _)
SecondPass(is, i, blocks, order, st) ==
  IF i > Len(is) \/ st.err THEN st
  ELSE LET ins == is[i]
           n == Len(order)
       IN IF ins.label # ""
          THEN IF st.idx >= n THEN [st EXCEPT !.err = TRUE]
               ELSE LET idx == IF blocks[order[st.idx + 1]] # <<>>
                               THEN st.idx + 1 ELSE st.idx
                    IN IF idx >= n THEN [st EXCEPT !.err = TRUE]
                       ELSE SecondPass(is, i + 1, blocks, order,
                                       [st EXCEPT !.idx = idx, !.cur = At(order, idx)])
          ELSE IF ins.op \in TERMINATORS
          THEN SecondPass(is, i + 1, blocks, order,
                 [st EXCEPT !.bterms = (st.cur :> ins) @@ @,
                            !.idx = st.idx + 1,
                            !.cur = IF st.idx + 1 < n THEN At(order, st.idx + 1) ELSE @])
          ELSE SecondPass(is, i + 1, blocks, order, st)

EXIT == "EXIT"

\* function_to_blocks: (blocks, edges, entry, exit), or the exception it
\* raises: IndexError in the second pass, KeyError for a label that is not
\* in the label table.  home is the block each instruction was put into.
function_to_blocks(is) ==
  LET first == FirstPass(is, 1, [blocks |-> << <<>> >>, labels |-> <<>>,
                                 cur |-> 0, home |-> <<>>])
      order == [k \in 1..Len(first.blocks) |-> BName(k - 1)]
      blocks == [b \in Range(order) |->
                   first.blocks[CHOOSE k \in 1..Len(order) : order[k] = b]]
      second == SecondPass(is, 1, blocks, order,
                           [idx |-> 0, cur |-> order[1], bterms |-> <<>>, err |-> FALSE])
      bterms == second.bterms
      labels == first.labels
      fallthrough == {<<order[k], order[k + 1]>> :
                        k \in {j \in 1..(Len(order) - 1) : order[j] \notin DOMAIN bterms}}
      wanted == UNION {IF bterms[b].op = "jmp" THEN {bterms[b].labels[1]}
                       ELSE IF bterms[b].op = "br" THEN Range(bterms[b].labels)
                       ELSE {} : b \in DOMAIN bterms}
      explicit == UNION {IF bterms[b].op = "jmp"
                         THEN {<<b, labels[bterms[b].labels[1]]>>}
                         ELSE IF bterms[b].op = "br"
                         THEN {<<b, labels[t]>> : t \in Range(bterms[b].labels)}
                         ELSE {} : b \in DOMAIN bterms}
      to_exit == {<<b, EXIT>> : b \in {x \in DOMAIN bterms : bterms[x].op = "ret"}}
                 \cup (IF \A b \in DOMAIN bterms : bterms[b].op # "ret"
                       THEN {<<order[Len(order)], EXIT>>} ELSE {})
  IN IF second.err THEN [raised |-> "IndexError"]
     ELSE IF ~(wanted \subseteq DOMAIN labels) THEN [raised |-> "KeyError"]
     ELSE [raised |-> "",
           blocks |-> (EXIT :> <<>>) @@ blocks,
           edges |-> fallthrough \cup explicit \cup to_exit,
           entry |-> order[1],
           exit |-> EXIT,
           home |-> [k \in 1..Len(is) |-> BName(first.home[k])],
           bterms |-> bterms]

(***************************************************************************)
(* The block builders applied to a function's instruction list.            *)
(***************************************************************************)
\* The instructions a function is made of: two labels, an assignment, jumps
\* and branches to these labels and to the label "z" no function has, ret.
BrilAlphabet ==
  {Lbl("a"), Lbl("b"),
   Ins("const", "x", <<>>, <<>>),
   Ins("jmp", "", <<>>, <<"a">>),
   Ins("jmp", "", <<>>, <<"z">>),
   Ins("br", "", <<"c">>, <<"a", "b">>),
   Ins("br", "", <<"c">>, <<"b", "z">>),
   Ins("ret", "", <<>>, <<>>)}

\* No label is declared twice.
LabelsDistinct(is) ==
  \A i, j \in 1..Len(is) : is_label(is[i]) /\ is_label(is[j]) /\ i # j
                              => is[i].label # is[j].label

BrilInit ==
  /\ \E n \in 0..MaxInstrs : instrs \in [1..n -> BrilAlphabet]
  /\ LabelsDistinct(instrs)
  /\ res = <<>>
  /\ bpc = "start"
  /\ DFIdle /\ DomIdle /\ IterIdle /\ CopyIdle

\* run_on_bril.py line 150: blocks, edges, preds = split_into_blocks(instrs)
SplitIntoBlocks ==
  /\ bpc = "start"
  /\ res' = split_into_blocks(instrs)
  /\ bpc' = "split"
  /\ UNCHANGED instrs

\* draw_cfg.py: blocks, label2block = make_blocks(instrs)
MakeBlocks ==
  /\ bpc = "start"
  /\ res' = make_blocks(instrs)
  /\ bpc' = "made"
  /\ UNCHANGED instrs

\* run_bril_dataflow.py line 173: function_to_blocks(func) returns.
FunctionToBlocks ==
  /\ bpc = "start"
  /\ function_to_blocks(instrs).raised = ""
  /\ res' = function_to_blocks(instrs)
  /\ bpc' = "ftb"
  /\ UNCHANGED instrs

\* function_to_blocks(func) raises; analyze_file passes the exception on.
FunctionToBlocksRaises ==
  /\ bpc = "start"
  /\ function_to_blocks(instrs).raised # ""
  /\ res' = function_to_blocks(instrs)
  /\ bpc' = "ftb_raised"
  /\ UNCHANGED instrs

BrilNext ==
  \/ SplitIntoBlocks /\ UNCHANGED <<dfvars, domvars, itervars, copyvars>>
  \/ MakeBlocks /\ UNCHANGED <<dfvars, domvars, itervars, copyvars>>
  \/ FunctionToBlocks /\ UNCHANGED <<dfvars, domvars, itervars, copyvars>>
  \/ FunctionToBlocksRaises /\ UNCHANGED <<dfvars, domvars, itervars, copyvars>>

BrilSpec == BrilInit /\ [][BrilNext]_vars

(***************************************************************************)
(* Copy-aware reaching definitions, lesson4/reaching_def.py: main numbers  *)
(* the definitions, splits the function into blocks and runs the worklist  *)
(* of run_copy_aware_rd.  instrs holds the numbered instructions, res the  *)
(* result of split_into_blocks, rIN and rOUT the lists IN and OUT (block   *)
(* index -> dictionary variable -> set of definition ids), work the deque. *)
(***************************************************************************)
MaxCopyInstrs == 4

\* The lists of a list of lists, one after the other.
RECURSIVE Concat(_)
Concat(seqs) == IF seqs = <<>> THEN <<>> ELSE Head(seqs) \o Concat(Tail(seqs))

\* assign_def_ids for one function: every instruction with a "dest" gets the
\* next id in def_id; None stands for an instruction without "_def_id".
assign_def_ids(is) ==
  [i \in 1..Len(is) |->
     [label |-> is[i].label, op |-> is[i].op, dest |-> is[i].dest,
      args |-> is[i].args, labels |-> is[i].labels,
      def_id |-> IF is[i].dest # ""
                 THEN Cardinality({j \in 1..(i - 1) : is[j].dest # ""})
                 ELSE None]]

\* Lines 82-86 of split_into_blocks: the dictionary preds as the list of its
\* items <<v, list of predecessors of v>> in insertion order.
preds_in_order(edges) ==
  LET nb == Cardinality(DOMAIN edges)
      es == Concat([k \in 1..nb |->
                      [m \in 1..Len(edges[k - 1]) |-> <<k - 1, edges[k - 1][m]>>]])
      firsts == Sorted({i \in 1..Len(es) : \A j \in 1..(i - 1) : es[j][2] # es[i][2]})
      into(v) == {i \in 1..Len(es) : es[i][2] = v}
  IN [k \in 1..Len(firsts) |->
        LET v == es[firsts[k]][2]
            at == Sorted(into(v))
        IN <<v, [m \in 1..Len(at) |-> es[at[m]][1]]>>]

\* successors_of: rev[b], the keys v of preds, once for every time b is in
\* preds[v].
successors_of(b, preds) ==
  Concat([k \in 1..Len(preds) |->
            SelectSeq([m \in 1..Len(preds[k][2]) |->
                         IF preds[k][2][m] = b THEN preds[k][1] ELSE None],
                      LAMBDA v : v # None)])

union_var_maps(maps) ==
  [var \in UNION {DOMAIN m : m \in maps} |->
     UNION {m[var] : m \in {x \in maps : var \in DOMAIN x}}]

differs(a, b) ==
  \/ DOMAIN a # DOMAIN b
  \/ \E k \in DOMAIN a : a[k] # b[k]

\* The body of the loop over a block's instructions with every instruction
\* that has a destination, a copy too, taken as a new defining site.
apply_instruction_no_copy(cur, ins) ==
  IF ins.op = "" \/ ins.dest = "" THEN cur
  ELSE (ins.dest :> {ins.def_id}) @@ cur

\* Lines 128-138: the body of the loop over a block's instructions.
apply_instruction(cur, ins) ==
  IF ins.op = "" \/ ins.dest = "" THEN cur
  ELSE IF ins.op = "id"
  THEN (ins.dest :> (IF ins.args[1] \in DOMAIN cur THEN cur[ins.args[1]] ELSE {})) @@ cur
  ELSE (ins.dest :> {ins.def_id}) @@ cur

\* Lines 126-138: cur after the instructions of the block.
RECURSIVE apply_block(_, _)
apply_block(block, cur) ==
  IF block = <<>> THEN cur
  ELSE apply_block(Tail(block), apply_instruction(cur, Head(block)))

\* The instructions of the analysed function: definitions, copies, an
\* instruction without destination, a label and control transfers.
CopyAlphabet ==
  {Ins("const", "x", <<>>, <<>>),
   Ins("id", "y", <<"x">>, <<>>),
   Ins("id", "x", <<"y">>, <<>>),
   Ins("print", "", <<"y">>, <<>>),
   Lbl("a"),
   Ins("jmp", "", <<>>, <<"a">>),
   Ins("br", "", <<"c">>, <<"a", "a">>)}

\* main, lines 174-181: the state before run_copy_aware_rd is called.
CopyInit ==
  /\ \E n \in 0..MaxCopyInstrs : \E is \in [1..n -> CopyAlphabet] :
        /\ LabelsDistinct(is)
        /\ instrs = assign_def_ids(is)
  /\ res = split_into_blocks(instrs)
  /\ rIN = <<>> /\ rOUT = <<>> /\ work = <<>>
  /\ rpc = "start"
  /\ bpc = "idle"
  /\ DFIdle /\ DomIdle /\ IterIdle

\* Lines 117-119.
RunInit ==
  /\ rpc = "start"
  /\ rOUT' = [b \in 0..(Len(res.blocks) - 1) |-> <<>>]
  /\ rIN' = [b \in 0..(Len(res.blocks) - 1) |-> <<>>]
  /\ work' = [k \in 1..Len(res.blocks) |-> k - 1]
  /\ rpc' = "loop"

\* One iteration of the loop, lines 121-142.
RunStep ==
  /\ rpc = "loop" /\ work # <<>>
  /\ LET b == Head(work)
         IN_b == union_var_maps({rOUT[p] : p \in res.preds[b]})
         cur == apply_block(At(res.blocks, b), IN_b)
     IN /\ rIN' = [rIN EXCEPT ![b] = IN_b]
        /\ IF differs(rOUT[b], cur)
           THEN /\ rOUT' = [rOUT EXCEPT ![b] = cur]
                /\ work' = Tail(work) \o successors_of(b, preds_in_order(res.edges))
           ELSE /\ rOUT' = rOUT
                /\ work' = Tail(work)
  /\ rpc' = rpc

\* Line 143: the deque is empty.
RunReturn ==
  /\ rpc = "loop" /\ work = <<>>
  /\ rpc' = "done"
  /\ UNCHANGED <<rIN, rOUT, work>>

CopyNext ==
  \/ RunInit /\ UNCHANGED <<dfvars, domvars, itervars, brilvars>>
  \/ RunStep /\ UNCHANGED <<dfvars, domvars, itervars, brilvars>>
  \/ RunReturn /\ UNCHANGED <<dfvars, domvars, itervars, brilvars>>

CopySpec == CopyInit /\ [][CopyNext]_vars

(***************************************************************************)
(* analyze_file of lesson4/run_bril_dataflow.py for one function: the      *)
(* blocks of function_to_blocks are given to make_cfg, then worklist_solve *)
(* runs for reaching definitions and, after it, for live variables.  bpc   *)
(* is the position in analyze_file, res the result of function_to_blocks   *)
(* and, once computed, rd_in and rd_out.                                   *)
(***************************************************************************)
MaxAnalyzeInstrs == 3

\* The keys of the dictionary blocks in insertion order: B0, B1, ..., EXIT.
BlockKeys(r) ==
  LET n == Cardinality(DOMAIN r.blocks)
  IN [k \in 1..n |-> IF k = n THEN EXIT ELSE BName(k - 1)]

KeyIndex(r, b) == CHOOSE k \in 1..Len(BlockKeys(r)) : BlockKeys(r)[k] = b

\* Line 174: make_cfg(blocks, edges, entry, exit_bid), the block ids being
\* the positions of the keys.
cfg_of_function(r) ==
  make_cfg([k \in 1..Len(BlockKeys(r)) |-> r.blocks[BlockKeys(r)[k]]],
           {<<KeyIndex(r, e[1]), KeyIndex(r, e[2])>> : e \in r.edges},
           KeyIndex(r, r.entry), KeyIndex(r, r.exit))

\* The instructions of the analysed function: a constant, an addition, an
\* effect operation and a ret that read a variable, a branch and a label.
AnalyzeAlphabet ==
  {Ins("const", "x", <<>>, <<>>),
   Ins("add", "y", <<"x", "x">>, <<>>),
   Ins("print", "", <<"y">>, <<>>),
   Ins("ret", "", <<"x">>, <<>>),
   Ins("br", "", <<"c">>, <<"a", "a">>),
   Lbl("a")}

AnalyzeInit ==
  /\ \E n \in 0..MaxAnalyzeInstrs : instrs \in [1..n -> AnalyzeAlphabet]
  /\ LabelsDistinct(instrs)
  /\ res = <<>>
  /\ bpc = "start"
  /\ DFIdle /\ DomIdle /\ IterIdle /\ CopyIdle

\* Lines 173-176: the CFG is built and worklist_solve is called for reaching
\* definitions.
AnalyzeReaching ==
  /\ bpc = "start"
  /\ function_to_blocks(instrs).raised = ""
  /\ res' = function_to_blocks(instrs)
  /\ cfg' = cfg_of_function(function_to_blocks(instrs))
  /\ prob' = reaching_definitions_problem(cfg_of_function(function_to_blocks(instrs)))
  /\ pc' = "start"
  /\ bpc' = "rd"
  /\ UNCHANGED <<instrs, in_map, out_map, wl>>

\* Line 173: function_to_blocks raises and analyze_file passes it on.
AnalyzeRaises ==
  /\ bpc = "start"
  /\ function_to_blocks(instrs).raised # ""
  /\ res' = function_to_blocks(instrs)
  /\ bpc' = "ftb_raised"
  /\ UNCHANGED <<instrs, dfvars>>

\* Lines 176-179: worklist_solve has returned rd_in, rd_out; it is called
\* for live variables.
AnalyzeLive ==
  /\ bpc = "rd" /\ pc = "done"
  /\ res' = [rd_in |-> in_map, rd_out |-> out_map] @@ res
  /\ prob' = live_variables_problem(cfg)
  /\ pc' = "start"
  /\ bpc' = "lv"
  /\ UNCHANGED <<instrs, cfg, in_map, out_map, wl>>

\* Line 181: worklist_solve has returned lv_in, lv_out.
AnalyzeReturn ==
  /\ bpc = "lv" /\ pc = "done"
  /\ bpc' = "analyzed"
  /\ UNCHANGED <<instrs, res, dfvars>>

AnalyzeNext ==
  \/ AnalyzeReaching /\ UNCHANGED <<domvars, itervars, copyvars>>
  \/ AnalyzeRaises /\ UNCHANGED <<domvars, itervars, copyvars>>
  \/ AnalyzeLive /\ UNCHANGED <<domvars, itervars, copyvars>>
  \/ AnalyzeReturn /\ UNCHANGED <<domvars, itervars, copyvars>>
  \/ SolveInit /\ UNCHANGED <<domvars, itervars, brilvars, copyvars>>
  \/ SolveForward /\ UNCHANGED <<domvars, itervars, brilvars, copyvars>>
  \/ SolveBackward /\ UNCHANGED <<domvars, itervars, brilvars, copyvars>>
  \/ SolveReturn /\ UNCHANGED <<domvars, itervars, brilvars, copyvars>>

AnalyzeSpec == AnalyzeInit /\ [][AnalyzeNext]_vars

(***************************************************************************)
(* Reference solution of a problem: the least solution of the dataflow     *)
(* equations, computed by updating all blocks at once from the previous    *)
(* round until nothing changes.  No worklist and no visiting order enter.  *)
(***************************************************************************)
Valid(p) == p.direction \in {"forward", "backward"}

\* The blocks whose value flows into b.
Inputs(c, p, b) ==
  IF p.direction = "forward" THEN c.blocks[b].preds ELSE c.blocks[b].succs

\* The value entering b given the leaving values X.
Entering(c, p, X, b) ==
  IF Inputs(c, p, b) # {} THEN UNION {X[q] : q \in Inputs(c, p, b)}
  ELSE Seeded(c, p)[b]

Round(c, p, X) ==
  [b \in DOMAIN c.blocks |-> transfer(c, p, c.blocks[b], Entering(c, p, X, b))]

RECURSIVE Least(_, _, _)
Least(c, p, X) == IF Round(c, p, X) = X THEN X ELSE Least(c, p, Round(c, p, X))

\* Leaving values (OUT forward, IN backward) and entering values of the solution.
RefLeaving(c, p) == Least(c, p, Seeded(c, p))

RefEntering(c, p) ==
  [b \in DOMAIN c.blocks |-> Entering(c, p, RefLeaving(c, p), b)]

\* The variables a statement list reads before any definition of them in it.
ReadBeforeDefined(stmts) ==
  {v \in UNION {uses(stmts[i]) : i \in 1..Len(stmts)} :
     \E i \in 1..Len(stmts) :
        v \in uses(stmts[i]) /\ \A j \in 1..(i - 1) : v \notin defs(stmts[j])}

\* Some block lies on a cycle of the CFG (a self-loop included).
RECURSIVE ReachFrom(_, _)
ReachFrom(c, S) ==
  LET T == S \cup UNION {c.blocks[b].succs : b \in S}
  IN IF T = S THEN S ELSE ReachFrom(c, T)

HasCycle(c) ==
  \E b \in DOMAIN c.blocks : b \in ReachFrom(c, c.blocks[b].succs)

(***************************************************************************)
(* Claims about worklist_solve.                                            *)
(***************************************************************************)
\* C1: when worklist_solve has returned, every block satisfies the dataflow
\* equations: forward, OUT(b) = transfer(b, IN(b)) and IN(b) is the meet of
\* OUT over b's predecessors, or b's seeded initial value when b has none;
\* backward, the same with IN/OUT and predecessors/successors swapped.
C1_FixpointOnReturn ==
  pc = "done" /\ Valid(prob) =>
    \A b \in DOMAIN cfg.blocks :
      LET blk == cfg.blocks[b]
      IN IF prob.direction = "forward"
         THEN /\ out_map[b] = transfer(cfg, prob, blk, in_map[b])
              /\ blk.preds # {} => in_map[b] = meet({out_map[p] : p \in blk.preds})
              /\ blk.preds = {} => in_map[b] = Seeded(cfg, prob)[b]
         ELSE /\ in_map[b] = transfer(cfg, prob, blk, out_map[b])
              /\ blk.succs # {} => out_map[b] = meet({in_map[s] : s \in blk.succs})
              /\ blk.succs = {} => out_map[b] = Seeded(cfg, prob)[b]

\* C1 witness: the solver has returned on a CFG with a cycle whose entry has
\* a predecessor, and some block received a non-empty value from its inputs.
C1_Witness ==
  /\ pc = "done" /\ Valid(prob)
  /\ HasCycle(cfg)
  /\ 1 \in DOMAIN cfg.blocks /\ cfg.blocks[1].preds # {}
  /\ \E b \in DOMAIN cfg.blocks :
       Inputs(cfg, prob, b) # {} /\ Entering(cfg, prob,
          IF prob.direction = "forward" THEN out_map ELSE in_map, b) # {}

\* C2: on the reaching-definitions and the live-variables problem the
\* solver terminates: the worklist becomes empty and worklist_solve returns,
\* whatever order the successors of a changed node are enqueued in.
C2_Terminates == Valid(prob) => <>(pc = "done")

\* C2 witness: the solver has returned on a CFG with a cycle after values
\* travelled along an edge (some node was dirtied and processed again).
C2_Witness ==
  /\ pc = "done" /\ Valid(prob) /\ wl = <<>>
  /\ HasCycle(cfg)
  /\ \E b \in DOMAIN cfg.blocks :
       IF prob.direction = "forward"
       THEN in_map[b] # {} /\ b \in ReachFrom(cfg, cfg.blocks[b].succs)
       ELSE out_map[b] # {} /\ b \in ReachFrom(cfg, cfg.blocks[b].succs)

\* C3: the IN/OUT mappings worklist_solve returns are the same for every
\* visiting order: whatever order the successors of changed nodes were
\* enqueued in, the result is the one reference solution of the problem.
C3_OrderIndependent ==
  pc = "done" /\ Valid(prob) =>
    IF prob.direction = "forward"
    THEN out_map = RefLeaving(cfg, prob) /\ in_map = RefEntering(cfg, prob)
    ELSE in_map = RefLeaving(cfg, prob) /\ out_map = RefEntering(cfg, prob)

\* C3 witness: the solver has returned after a node with two nodes to dirty
\* changed its value, so that an enqueueing order was chosen.
C3_Witness ==
  /\ pc = "done" /\ Valid(prob)
  /\ \E b \in DOMAIN cfg.blocks :
       IF prob.direction = "forward"
       THEN Cardinality(cfg.blocks[b].succs) >= 2 /\ out_map[b] # {}
       ELSE Cardinality(cfg.blocks[b].preds) >= 2 /\ in_map[b] # {}

\* C4: on the reaching-definitions problem every assignment to OUT(b)
\* replaces the old value by a superset of it.
C4_OutNeverShrinks ==
  [][prob.analysis = "rd" =>
       \A b \in DOMAIN out_map : out_map[b] \subseteq out_map'[b]]_vars

\* C4 witness: a block whose OUT already holds definitions from elsewhere is
\* at the head of the worklist with definitions arriving that its IN lacks.
C4_Witness ==
  /\ pc = "loop" /\ prob.analysis = "rd" /\ prob.direction = "forward"
  /\ wl # <<>>
  /\ LET b == Head(wl)
     IN /\ out_map[b] # {}
        /\ cfg.blocks[b].preds # {}
        /\ ~(meet({out_map[p] : p \in cfg.blocks[b].preds}) \subseteq in_map[b])

\* C5: in the live-variables result, every variable a block reads before
\* any definition of it inside the block is in IN of that block.
C5_UseInLiveIn ==
  pc = "done" /\ prob.analysis = "lv" /\ prob.direction = "backward" =>
    \A b \in DOMAIN cfg.blocks :
      /\ block_uses_defs(cfg.blocks[b]).use = ReadBeforeDefined(cfg.blocks[b].stmts)
      /\ ReadBeforeDefined(cfg.blocks[b].stmts) \subseteq in_map[b]

\* C5 witness: a returned live-variables result with a block that reads a
\* variable first and defines it afterwards.
C5_Witness ==
  /\ pc = "done" /\ prob.analysis = "lv" /\ prob.direction = "backward"
  /\ \E b \in DOMAIN cfg.blocks :
       ReadBeforeDefined(cfg.blocks[b].stmts)
         \cap block_uses_defs(cfg.blocks[b]).defs # {}

\* C6: with a direction other than forward or backward worklist_solve ends
\* in the error, never in a normal return, and the error is raised from the
\* starting position: before IN/OUT are initialised and any node dequeued.
C6_ErrorBeforeAnyWork ==
  [][~Valid(prob) => /\ pc' # "done"
                     /\ (pc' = "error" => pc = "start")]_vars

(***************************************************************************)
(* Dominance by its definition: d dominates v when every path from entry   *)
(* to v passes through d.                                                  *)
(***************************************************************************)
\* The nodes reached from entry along paths that never enter node d.
RECURSIVE ReachAvoiding(_, _, _)
ReachAvoiding(c, d, seen) ==
  LET more == seen \cup (UNION {succs(c, n) : n \in seen} \ {d})
  IN IF more = seen THEN seen ELSE ReachAvoiding(c, d, more)

PathDominates(c, d, v) ==
  /\ v \in reachable_from_entry(c)
  /\ \/ d = v
     \/ d = c.entry
     \/ v \notin ReachAvoiding(c, d, {c.entry})

PathDominators(c, v) == {d \in DOMAIN c.blocks \cup {c.entry} : PathDominates(c, d, v)}

AllReachable(c) == DOMAIN c.blocks \subseteq reachable_from_entry(c)

\* The diamond A->B, A->C, B->D, C->D with A, B, C, D the blocks 0, 1, 2, 3.
Diamond == cfg_from_blocks({<<0, 1>>, <<0, 2>>, <<1, 3>>, <<2, 3>>}, 4)

\* The chain A->B->C.
Chain == cfg_from_blocks({<<0, 1>>, <<1, 2>>}, 3)

(***************************************************************************)
(* Claims about the dominator module.                                      *)
(***************************************************************************)
\* C7: for every node v reachable from entry, dom(v) as compute_dominators
\* returns it is exactly the set of nodes every path from entry to v passes
\* through, also when nodes unreachable from entry have edges into
\* reachable nodes; the chain gives {A}, {A,B}, {A,B,C}.
C7_DomIsPathDominance ==
  dpc # "start" =>
    /\ \A v \in reachable_from_entry(dcfg) : dom[v] = PathDominators(dcfg, v)
    /\ dcfg = Chain => dom = (0 :> {0} @@ 1 :> {0, 1} @@ 2 :> {0, 1, 2})

\* C8: dom(entry) = {entry} and every node is a member of its own dominator
\* set, also when entry has predecessors.
C8_EntryAndReflexive ==
  dpc # "start" =>
    /\ dom[dcfg.entry] = {dcfg.entry}
    /\ DOMAIN dcfg.blocks \subseteq DOMAIN dom
    /\ \A v \in DOMAIN dom : v \in dom[v]

\* C8 witness: dominators computed for a CFG whose entry has a predecessor
\* other than itself.
C8_Witness ==
  /\ dpc = "dom"
  /\ dcfg.entry \in DOMAIN dcfg.blocks
  /\ dcfg.blocks[dcfg.entry] \ {dcfg.entry} # {}

C10_FrontierByDefinition ==
  AllReachable(dcfg) =>
    /\ dpc # "df_hang"
    /\ dpc = "df" =>
         \A n \in DOMAIN DF :
           DF[n] = {y \in DOMAIN dcfg.blocks :
                      /\ Cardinality(dcfg.blocks[y]) >= 2
                      /\ \E p \in dcfg.blocks[y] : PathDominates(dcfg, n, p)
                      /\ ~(n # y /\ PathDominates(dcfg, n, y))}
    /\ dpc = "df" /\ dcfg = Diamond =>
         /\ idom[3] = 0
         /\ DF = (0 :> {} @@ 1 :> {3} @@ 2 :> {3} @@ 3 :> {})

\* C10 witness: the frontier computed for an all-reachable CFG in which
\* entry is a join node and lies in its own frontier.
C10_Witness ==
  /\ dpc = "df" /\ AllReachable(dcfg)
  /\ dcfg.entry \in DOMAIN dcfg.blocks
  /\ Cardinality(dcfg.blocks[dcfg.entry]) >= 2
  /\ dcfg.entry \in DF[dcfg.entry]
  /\ \E n \in DOMAIN DF \ {dcfg.entry} : dcfg.entry \in DF[n]

\* Following idom from n reaches entry without coming to None or to a node
\* already visited.
RECURSIVE ClimbsToEntry(_, _, _, _)
ClimbsToEntry(im, n, entry, seen) ==
  IF n = entry THEN TRUE
  ELSE IF n = None \/ n \in seen \/ n \notin DOMAIN im THEN FALSE
  ELSE ClimbsToEntry(im, im[n], entry, seen \cup {n})

\* C11: the idom mapping is a tree rooted at entry over the nodes reachable
\* from entry: entry maps to None, every other reachable node has an idom
\* that is not None, and following idom from a reachable node reaches entry
\* without visiting a node twice.
C11_IdomTreeOverReachable ==
  dpc \in {"idom", "df", "df_hang"} =>
    /\ idom[dcfg.entry] = None
    /\ \A v \in reachable_from_entry(dcfg) \ {dcfg.entry} :
         /\ idom[v] # None
         /\ ClimbsToEntry(idom, v, dcfg.entry, {})

\* C17: no node unreachable from entry is a key of the dom, idom or
\* dominance-frontier results, and no unreachable node is among the
\* predecessors cfg.blocks[v] that compute_dominators meets over for a
\* reachable node v.
C17_UnreachablePruned ==
  LET R == reachable_from_entry(dcfg)
  IN /\ dpc # "start" =>
          /\ DOMAIN dom \subseteq R
          /\ \A v \in R \cap DOMAIN dcfg.blocks : dcfg.blocks[v] \subseteq R
     /\ dpc \in {"idom", "df", "df_hang"} => DOMAIN idom \subseteq R
     /\ dpc = "df" => DOMAIN DF \subseteq R

\* C18: the dominator analysis completes: dominance_frontier is never left
\* walking round the idom chain without end.
C18_AnalysisCompletes == dpc # "df_hang"

\* C20: during compute_dominators every update of dom(v) replaces it by a
\* subset of its previous value, and the loop converges: a full pass that
\* changes no dom(v) is reached and compute_dominators returns.
C20_ShrinkAndConverge ==
  /\ [][\A v \in DOMAIN dom \cap DOMAIN dom' : dom'[v] \subseteq dom[v]]_vars
  /\ <>(dpc = "dom")

\* C20 witness: in a pass after the first, a dominator set that was already
\* made smaller is about to be made smaller again.
C20_Witness ==
  /\ dpc = "for" /\ vi <= Len(rporder)
  /\ LET v == rporder[vi]
     IN /\ v # dcfg.entry
        /\ dom[v] # DOMAIN dcfg.blocks
        /\ new_set(dcfg, dom, v) # dom[v]

(***************************************************************************)
(* Claims about the block builders.                                        *)
(***************************************************************************)
\* Some jmp or br of the function names a label the function does not have.
MissingTarget(is) ==
  \E i \in 1..Len(is) :
     /\ is[i].op \in {"jmp", "br"}
     /\ ~(Range(is[i].labels) \subseteq DOMAIN label_positions(is))

\* C12: when a closing jmp or br names a label the function does not have,
\* edge construction reports the missing label to the caller and still
\* produces the CFG: split_into_blocks and function_to_blocks both return,
\* and what they return carries the report.
C12_MissingLabelReported ==
  MissingTarget(instrs) =>
    /\ bpc # "ftb_raised"
    /\ bpc \in {"split", "ftb"} => "missing" \in DOMAIN res

\* The non-label instructions of a list, in order.
NonLabels(is) == SelectSeq(is, LAMBDA ins : ins.label = "")

\* The ranges start..end of the blocks of make_blocks follow one another
\* from position 0 to the last position without gap or overlap.
GapFree(blocks, n) ==
  /\ blocks = <<>> <=> n = 0
  /\ blocks # <<>> => blocks[1].start = 0 /\ blocks[Len(blocks)].end = n - 1
  /\ \A k \in 1..(Len(blocks) - 1) : blocks[k + 1].start = blocks[k].end + 1
  /\ \A k \in 1..Len(blocks) : blocks[k].start <= blocks[k].end

C19_LeaderRules ==
  LET n == Len(instrs)
      lblpos == label_positions(instrs)
      rule(i) == \/ i = 0
                 \/ \E j \in 1..n : instrs[j].op \in {"jmp", "br"}
                                     /\ \E t \in Range(instrs[j].labels) :
                                          t \in DOMAIN lblpos /\ lblpos[t] = i
                 \/ i > 0 /\ At(instrs, i - 1).op \in TERMINATORS
                 \/ is_label(At(instrs, i))
  IN bpc = "split" =>
       /\ Range(leaders(instrs, lblpos)) = {i \in 0..(n - 1) : rule(i)}
       /\ \A k \in 1..Len(res.blocks) : \A j \in 1..(Len(res.blocks[k]) - 1) :
             res.blocks[k][j].op \notin TERMINATORS

\* The instruction that closes block b of function_to_blocks: the last
\* non-label instruction put into b, or none for a block without
\* instructions.
ClosingPositions(b) ==
  {i \in 1..Len(instrs) : res.home[i] = b /\ instrs[i].label = ""}

Closing(b) ==
  LET ps == ClosingPositions(b)
  IN IF ps = {} THEN Ins("", "", <<>>, <<>>)
     ELSE instrs[CHOOSE i \in ps : \A j \in ps : j <= i]

\* The block the label l starts: the block the label was put into.
BlockOfLabel(l) ==
  res.home[CHOOSE i \in 1..Len(instrs) : instrs[i].label = l]

\* The edges prescribed for block number k by the instruction closing it.
PrescribedEdges(k, nblocks) ==
  LET b == BName(k)
      c == Closing(b)
      returns == \E j \in 0..(nblocks - 1) : Closing(BName(j)).op = "ret"
      last_to_exit == IF k = nblocks - 1 /\ ~returns THEN {<<b, EXIT>>} ELSE {}
  IN (IF c.op = "jmp" THEN {<<b, BlockOfLabel(c.labels[1])>>}
      ELSE IF c.op = "br" THEN {<<b, BlockOfLabel(t)>> : t \in Range(c.labels)}
      ELSE IF c.op = "ret" THEN {<<b, EXIT>>}
      ELSE IF k + 1 < nblocks THEN {<<b, BName(k + 1)>>} ELSE {})
     \cup last_to_exit

\* C13: in the CFG function_to_blocks returns, the edges leaving every block
\* are exactly those the instruction closing the block prescribes: jmp to
\* the block of its label, br to its two target blocks, ret to EXIT,
\* otherwise the fall-through edge to the next block if there is one, and
\* EXIT from the last block when no block returns.
C13_EdgesFollowClosingInstruction ==
  bpc = "ftb" =>
    LET nblocks == Cardinality(DOMAIN res.blocks \ {EXIT})
    IN \A k \in 0..(nblocks - 1) :
         {e \in res.edges : e[1] = BName(k)} = PrescribedEdges(k, nblocks)

(***************************************************************************)
(* Claims about the reaching-definitions results.                          *)
(***************************************************************************)
\* The statements of block b that define v, counted from 0.
DefPositions(b, v) ==
  {i - 1 : i \in {j \in 1..Len(cfg.blocks[b].stmts) : v \in defs(cfg.blocks[b].stmts[j])}}

\* C15: at the reaching-definitions fixpoint worklist_solve returns, for
\* every block b and every variable v that b defines, OUT(b) holds exactly
\* one definition site of v, the last definition of v inside b.
C15_OutHoldsLastDefinition ==
  (pc = "done" /\ prob.analysis = "rd") =>
    \A b \in DOMAIN cfg.blocks : \A v \in block_uses_defs(cfg.blocks[b]).defs :
       {site \in out_map[b] : site[3] = v}
         = {<<b, CHOOSE i \in DefPositions(b, v) : \A j \in DefPositions(b, v) : j <= i, v>>}

\* C15 witness: the solver has returned for a block that defines x twice
\* and is reached by a definition of x from another block and by its own
\* first definition of x around a loop.
C15_Witness ==
  /\ pc = "done" /\ prob.analysis = "rd"
  /\ \E b \in DOMAIN cfg.blocks :
       /\ cfg.blocks[b].stmts = Redefining
       /\ b \in cfg.blocks[b].preds
       /\ \E p \in cfg.blocks[b].preds : p # b /\ <<p, 0, "x">> \in out_map[p]
       /\ out_map[b] = {<<b, 1, "y">>, <<b, 2, "x">>}

(***************************************************************************)
(* Claims about the copy-aware reaching definitions.                       *)
(***************************************************************************)
Origin(m, v) == IF v \in DOMAIN m THEN m[v] ELSE {}

\* The definition id of an instruction with a destination: the number of
\* instructions with a destination in front of it.
DefinitionsBefore(ins) ==
  LET pos == CHOOSE i \in 1..Len(instrs) : instrs[i] = ins
  IN Cardinality({k \in 1..(pos - 1) : instrs[k].dest # ""})

\* The origin set of v after the first j instructions of the block, read
\* backwards from the claim: the last instruction that writes v decides; a
\* copy hands on what its source had just before it.
RECURSIVE OriginAfter(_, _, _, _)
OriginAfter(block, j, v, in_b) ==
  IF j = 0 THEN Origin(in_b, v)
  ELSE LET ins == block[j]
       IN IF ins.op # "" /\ ins.dest = v
          THEN IF ins.op = "id" THEN OriginAfter(block, j - 1, ins.args[1], in_b)
               ELSE {DefinitionsBefore(ins)}
          ELSE OriginAfter(block, j - 1, v, in_b)

\* C16: when run_copy_aware_rd returns, OUT of every block is IN of the
\* block with the block's instructions applied in order: a non-copy
\* instruction with destination d leaves d with exactly its own definition
\* id, a copy d = id s leaves d with what s had at that point, anything
\* else changes nothing.  For the single block x = const; y = id x;
\* x = const, OUT maps y to id 0 and x to id 2.
C16_CopyAwareOrigins ==
  rpc = "done" =>
    /\ \A b \in DOMAIN rOUT : \A v \in {"x", "y", "c"} :
         LET block == At(res.blocks, b)
         IN Origin(rOUT[b], v) = OriginAfter(block, Len(block), v, rIN[b])
    /\ [i \in 1..Len(instrs) |-> <<instrs[i].op, instrs[i].dest>>]
         = << <<"const", "x">>, <<"id", "y">>, <<"const", "x">> >>
       => rOUT = (0 :> [x |-> {2}, y |-> {0}])

\* C16 witness: run_copy_aware_rd has returned for the single block
\* x = const; y = id x; x = const.
C16_Witness ==
  /\ rpc = "done"
  /\ [i \in 1..Len(instrs) |-> <<instrs[i].op, instrs[i].dest>>]
       = << <<"const", "x">>, <<"id", "y">>, <<"const", "x">> >>
  /\ rOUT[0]["y"] = {0} /\ rOUT[0]["x"] = {2}

(***************************************************************************)
(* Claims about statements that write through a pointer or to an element.  *)
(***************************************************************************)
\* The left-hand side of the statement is a dereference or an index target.
IsMemoryWrite(t) ==
  /\ HasEq(t)
  /\ \E i \in 1..(EqPos(t) - 1) : t[i] \in {"*", "["}

\* Every name the statement mentions, on either side of "=".
NamesIn(t) == {t[i] : i \in {j \in 1..Len(t) : t[j] \notin NotAName}}

\* C21: a statement whose left-hand side is a dereference or an index
\* target defines no variable and uses every name on both sides; so when
\* worklist_solve returns for reaching definitions, a block made only of
\* such writes has OUT equal to IN.
C21_MemoryWriteDefinesNothing ==
  (pc = "done" /\ prob.analysis = "rd") =>
    \A b \in DOMAIN cfg.blocks :
       LET stmts == cfg.blocks[b].stmts
       IN /\ \A i \in 1..Len(stmts) :
               IsMemoryWrite(stmts[i]) =>
                 defs(stmts[i]) = {} /\ uses(stmts[i]) = NamesIn(stmts[i])
          /\ (stmts # <<>> /\ \A i \in 1..Len(stmts) : IsMemoryWrite(stmts[i]))
               => /\ gen(cfg, b) = {} /\ kill(cfg, b) = {}
                  /\ out_map[b] = in_map[b]

(***************************************************************************)
(* Claims about the candidate test of immediate_dominators.                *)
(***************************************************************************)
\* C22: on a CFG all of whose nodes are reachable from entry, for every
\* node v other than entry exactly one member of dom(v) - {v} passes the
\* candidate test of immediate_dominators, the strict dominator that all
\* the others dominate; so the fallback to the largest dominator set is not
\* taken, idom(v) is that member, and immediate_dominators can return only
\* one mapping whatever the iteration order of the sets.
C22_UniqueCandidate ==
  (dpc \in {"dom", "idom", "df"} /\ AllReachable(dcfg)) =>
    /\ \A v \in DOMAIN dom \ {dcfg.entry} :
         /\ Cardinality(Candidates(dom, v)) = 1
         /\ \A d \in Candidates(dom, v) :
              \A o \in (dom[v] \ {v}) \ {d} : PathDominates(dcfg, o, d)
         /\ dpc # "dom" => idom[v] \in Candidates(dom, v)
    /\ Cardinality(immediate_dominators(dom, dcfg.entry, DOMAIN dom)) = 1

\* C22 witness: immediate dominators computed on a CFG all of whose nodes
\* are reachable, with a node that has three strict dominators, only one of
\* which passes the test.
C22_Witness ==
  /\ dpc = "idom" /\ AllReachable(dcfg)
  /\ \E v \in DOMAIN dom \ {dcfg.entry} :
       /\ Cardinality(dom[v] \ {v}) = 3
       /\ Candidates(dom, v) = {idom[v]}

(***************************************************************************)
(* Claims about the live variables of a Bril function.                     *)
(***************************************************************************)
\* The variable names of the function: the arguments and the destinations
\* of its instructions, and the name the branch condition is assigned to.
FunctionVariables(is) ==
  UNION {Range(is[i].args) \cup (IF is[i].dest # "" THEN {is[i].dest} ELSE {})
         : i \in 1..Len(is)} \cup {"_brcond"}

\* The variables instruction i reads that no earlier instruction of its
\* block has written.
ReadBeforeWritten(is, home, i) ==
  {v \in Range(is[i].args) :
     \A j \in 1..(i - 1) : home[j] = home[i] => is[j].dest # v}

\* C23: when worklist_solve has returned the live variables of a function,
\* every member of every IN and OUT set is a variable name of the function,
\* never an opcode word, and every variable an instruction reads, ret and
\* effect operations included, is in the use set of the instruction's block
\* unless the block wrote it before.
C23_LiveSetsHoldVariables ==
  bpc = "analyzed" =>
    /\ \A b \in DOMAIN cfg.blocks :
         in_map[b] \cup out_map[b] \subseteq FunctionVariables(instrs)
    /\ \A i \in 1..Len(instrs) :
         instrs[i].label = "" =>
           ReadBeforeWritten(instrs, res.home, i)
             \subseteq block_uses_defs(cfg.blocks[KeyIndex(res, res.home[i])]).use

====
